---- MODULE Spec2Model ----
(***************************************************************************)
(* A model of cbmc_viewer/sourcet.py: the Source object and its            *)
(* constructors (Source, SourceFromJson, SourceFromMake, the two directory *)
(* scans), the sloc batching loop, select_source_files and make_source.    *)
(*                                                                         *)
(* Python strings are modelled as sequences of one-character strings, so   *)
(* that prefix tests, slicing, splitting and ordering are computed the way *)
(* the code computes them.  The Source constructor only tests its root and *)
(* files arguments for truth ("if root", "files or []"), so there None, '' *)
(* and [] are all written as the empty sequence.                           *)
(***************************************************************************)
EXTENDS Integers, Sequences, FiniteSets, TLC

VARIABLES
    pc,       \* position of the operation in progress
    args,     \* the arguments of the call in progress / last made
    self,     \* the attributes (__dict__) of the Source object
    raised,   \* the exception that left the call, or NoError
    calls,    \* the external commands run so far (runt.run, open), in order
    written,  \* the documents written by Source.__str__ / dump
    local     \* local variables of the operation in progress

vars == <<pc, args, self, raised, calls, written, local>>

----------------------------------------------------------------------------
(* Bounds of the model *)

MaxFiles == 2
MaxBatches == 2

----------------------------------------------------------------------------
(* Python str *)

\* The characters used, in code point order (str comparison is by code point).
Alphabet ==
    << "\n", " ", "\"", "#", "-", ".", "/",
       "0", "1", "2", "3", "4", "5", "6", "7", "8", "9",
       "<", ">",
       "A", "B", "C", "D", "E", "F", "G", "H", "I", "J", "K", "L", "M",
       "N", "O", "P", "Q", "R", "S", "T", "U", "V", "W", "X", "Y", "Z",
       "\\",
       "a", "b", "c", "d", "e", "f", "g", "h", "i", "j", "k", "l", "m",
       "n", "o", "p", "q", "r", "s", "t", "u", "v", "w", "x", "y", "z" >>

Chars == {Alphabet[i] : i \in 1..Len(Alphabet)}

Ord == [c \in Chars |-> CHOOSE i \in 1..Len(Alphabet) : Alphabet[i] = c]

Min(S) == CHOOSE x \in S : \A y \in S : x <= y
Max(S) == CHOOSE x \in S : \A y \in S : x >= y

\* a < b for str
StrLess(a, b) ==
    LET n == IF Len(a) < Len(b) THEN Len(a) ELSE Len(b)
        d == {i \in 1..n : a[i] # b[i]}
    IN  IF d = {} THEN Len(a) < Len(b)
        ELSE Ord[a[Min(d)]] < Ord[b[Min(d)]]

\* s.startswith(p)
StartsWith(s, p) == Len(p) <= Len(s) /\ SubSeq(s, 1, Len(p)) = p

\* s[n:]
From(s, n) == SubSeq(s, n + 1, Len(s))

\* s.lower()
LowerChar(c) ==
    IF Ord[c] >= Ord["A"] /\ Ord[c] <= Ord["Z"]
    THEN Alphabet[Ord[c] + (Ord["a"] - Ord["A"])]
    ELSE c

Lower(s) == [i \in 1..Len(s) |-> LowerChar(s[i])]

\* s.endswith(p)
EndsWith(s, p) ==
    Len(p) <= Len(s) /\ SubSeq(s, Len(s) - Len(p) + 1, Len(s)) = p

\* s.split(sep) for a one-character separator
RECURSIVE SplitFrom(_, _, _)
SplitFrom(s, sep, i) ==
    LET later == {j \in i..Len(s) : s[j] = sep}
    IN  IF later = {} THEN << SubSeq(s, i, Len(s)) >>
        ELSE << SubSeq(s, i, Min(later) - 1) >> \o SplitFrom(s, sep, Min(later) + 1)

Split(s, sep) == SplitFrom(s, sep, 1)

\* sep.join(parts)
RECURSIVE Join(_, _)
Join(sep, parts) ==
    IF parts = << >> THEN << >>
    ELSE IF Len(parts) = 1 THEN parts[1]
    ELSE parts[1] \o sep \o Join(sep, Tail(parts))

Range(s) == {s[i] : i \in 1..Len(s)}

\* sorted(set(xs)) for a list of str: each member of the set goes to the
\* position given by the number of members below it
SortedList(S) ==
    LET rank == [x \in S |-> Cardinality({y \in S : StrLess(y, x)})]
    IN  [i \in 1..Cardinality(S) |-> CHOOSE x \in S : rank[x] = i - 1]

SortedSet(xs) == SortedList(Range(xs))

\* [f(x) for x in xs if keep(x)] is written with SelectSeq and a map
Map(xs, Op(_)) == [i \in 1..Len(xs) |-> Op(xs[i])]

----------------------------------------------------------------------------
(* os.path (posix) *)

Slash == << "/" >>

\* os.path.normpath
RECURSIVE NormComps(_, _, _, _)
NormComps(comps, i, new, initial) ==
    IF i > Len(comps) THEN new
    ELSE LET comp == comps[i] IN
         IF comp = << >> \/ comp = << "." >>
         THEN NormComps(comps, i + 1, new, initial)
         ELSE IF comp # << ".", "." >>
                 \/ (initial = 0 /\ new = << >>)
                 \/ (new # << >> /\ new[Len(new)] = << ".", "." >>)
         THEN NormComps(comps, i + 1, Append(new, comp), initial)
         ELSE IF new # << >>
         THEN NormComps(comps, i + 1, SubSeq(new, 1, Len(new) - 1), initial)
         ELSE NormComps(comps, i + 1, new, initial)

InitialSlashes(path) ==
    IF ~StartsWith(path, Slash) THEN 0
    ELSE IF StartsWith(path, << "/", "/" >>)
            /\ ~StartsWith(path, << "/", "/", "/" >>)
         THEN 2 ELSE 1

\* path or '.'
OrDot(path) == IF path = << >> THEN << "." >> ELSE path

NormJoin(path, initial) ==
    [i \in 1..initial |-> "/"]
        \o Join(Slash, NormComps(Split(path, "/"), 1, << >>, initial))

OsNormpath(path) ==
    IF path = << >> THEN << "." >>
    ELSE OrDot(NormJoin(path, InitialSlashes(path)))

\* os.path.join(a, b)
OsJoin(a, b) ==
    IF StartsWith(b, Slash) THEN b
    ELSE IF a = << >> \/ a[Len(a)] = "/" THEN a \o b
    ELSE a \o Slash \o b

\* the working directory of the process
Cwd == << "/", "w" >>

\* os.path.abspath
OsAbspath(path) ==
    OsNormpath(IF StartsWith(path, Slash) THEN path ELSE OsJoin(Cwd, path))

\* os.path.basename
OsBasename(p) ==
    LET seps == {i \in 1..Len(p) : p[i] = "/"}
    IN  IF seps = {} THEN p ELSE From(p, Max(seps))

\* os.path.splitext(p)[1]
OsSplitextExt(p) ==
    LET seps == {i \in 1..Len(p) : p[i] = "/"}
        dots == {i \in 1..Len(p) : p[i] = "."}
        sepIndex == IF seps = {} THEN 0 ELSE Max(seps)
        dotIndex == IF dots = {} THEN 0 ELSE Max(dots)
    IN  IF dotIndex > sepIndex
           /\ \E k \in (sepIndex + 1)..(dotIndex - 1) : p[k] # "."
        THEN From(p, dotIndex - 1)
        ELSE << >>

\* srcloct.normpath and srcloct.abspath: the PathNormalizer
normpath(path) == OsNormpath(path)
abspath(path) == normpath(OsAbspath(path))

----------------------------------------------------------------------------
(* Values shared by the operations *)

NoObject == << >>
NoError == [type |-> "none"]

\* dict.get and dict update on functions with a finite domain
Has(d, k) == k \in DOMAIN d

----------------------------------------------------------------------------
(* Source.sloc *)

BatchSize == 100

\* int(val) for the values of a sloc summary: numbers, or strings of digits
DigitValue(c) == Ord[c] - Ord["0"]

RECURSIVE ParseInt(_)
ParseInt(s) ==
    IF s = << >> THEN 0
    ELSE 10 * ParseInt(SubSeq(s, 1, Len(s) - 1)) + DigitValue(s[Len(s)])

IntOf(val) == IF val.t = "int" THEN val.v ELSE ParseInt(val.v)

\* for key, val in data.items(): loc[key] = int(val) + loc.get(key, 0)
DropAccumulate(loc, data) ==
    [key \in DOMAIN loc \cup DOMAIN data |->
        IF Has(data, key) THEN IntOf(data[key]) ELSE loc[key]]

Accumulate(loc, data) ==
    [key \in DOMAIN loc \cup DOMAIN data |->
        IF Has(data, key)
        THEN IntOf(data[key]) + (IF Has(loc, key) THEN loc[key] ELSE 0)
        ELSE loc[key]]

\* The except clauses around runt.run: what an exception of the tool run
\* becomes.  "return" is return None, "raise" lets the exception go.
NoCatchCalledProcessError(error) ==
    IF error.type = "FileNotFoundError" THEN "return"
    ELSE IF error.type = "OSError"
         THEN (IF error.errno # 7 THEN "raise" ELSE "return")
    ELSE "raise"

SlocExcept(error) ==
    IF error.type = "FileNotFoundError" THEN "return"
    ELSE IF error.type = "OSError"
         THEN (IF error.errno # 7 THEN "raise" ELSE "return")
    ELSE IF error.type = "CalledProcessError" THEN "return"
    ELSE "raise"

\* files = sources[:100]; sources = sources[100:]
NextBatch(sources) ==
    [files |-> SubSeq(sources, 1, Min({BatchSize, Len(sources)})),
     rest  |-> From(sources, BatchSize)]

\* The while loop of sloc.  run[i] is what the i-th run of the tool does:
\* [ok |-> TRUE, summary |-> dict] or [ok |-> FALSE, error |-> exception].
\* The result records the value returned (none: None was returned), the
\* exception that left sloc, and the tool runs made.
RECURSIVE SlocLoop(_, _, _, _, _)
SlocLoop(sources, root, run, loc, log) ==
    IF sources = << >>
    THEN [none |-> FALSE, loc |-> loc, raised |-> NoError, calls |-> log]
    ELSE LET batch == NextBatch(sources)
             out == run[Len(log) + 1]
             call == [cmd |-> "sloc", files |-> batch.files, cwd |-> root,
                      out |-> out]
         IN  IF out.ok
             THEN SlocLoop(batch.rest, root, run,
                           Accumulate(loc, out.summary), Append(log, call))
             ELSE IF SlocExcept(out.error) = "return"
             THEN [none |-> TRUE, loc |-> << >>, raised |-> NoError,
                   calls |-> Append(log, call)]
             ELSE [none |-> TRUE, loc |-> << >>, raised |-> out.error,
                   calls |-> Append(log, call)]

sloc(files, root, run) == SlocLoop(files, root, run, << >>, << >>)

----------------------------------------------------------------------------
(* Source.validate: VALID_SOURCE *)

IsStr(x) == \A i \in DOMAIN x : x[i] \in Chars
IsStrList(xs) == \A i \in DOMAIN xs : IsStr(xs[i])

Validate(d) ==
    /\ {"root", "files", "all_files"} \subseteq DOMAIN d
    /\ DOMAIN d \subseteq {"root", "files", "all_files", "lines_of_code"}
    /\ IsStr(d["root"])
    /\ IsStrList(d["files"])
    /\ IsStrList(d["all_files"])
    /\ Has(d, "lines_of_code") =>
           \A k \in DOMAIN d["lines_of_code"] : d["lines_of_code"][k] \in Int

----------------------------------------------------------------------------
(* Source.__init__ *)

\* self.root = srcloct.abspath(root) if root else ''
SourceRoot(root) == IF root # << >> THEN abspath(root) ELSE << >>

\* self.all_files = sorted({srcloct.abspath(path) for path in files})
SourceAllFiles(files) ==
    SortedSet(Map(files, abspath))

\* self.files = [srcloct.normpath(path[len(self.root)+1:])
\*               for path in self.all_files if path.startswith(self.root)]
SourceFiles(root, all_files) ==
    Map(SelectSeq(all_files, LAMBDA path : StartsWith(path, root)),
        LAMBDA path : normpath(From(path, Len(root) + 1)))

\* The attributes set before the statistics are computed
AttrsOf(root, all_files) ==
    ("root" :> root) @@ ("all_files" :> all_files)
        @@ ("files" :> SourceFiles(root, all_files))

SourceAttrs(root, files) == AttrsOf(SourceRoot(root), SourceAllFiles(files))

\* What sloc gives when it is not run
NoStatistics ==
    [none |-> TRUE, loc |-> << >>, raised |-> NoError, calls |-> << >>]

\* self.validate() at the end of the constructor
ValidatedObject(obj, stat) ==
    IF ~Validate(obj)
    THEN [obj |-> NoObject, raised |-> [type |-> "Invalid"],
          calls |-> stat.calls, stat |-> stat]
    ELSE [obj |-> obj, raised |-> NoError, calls |-> stat.calls, stat |-> stat]

\* if lines_of_code: self.lines_of_code = lines_of_code
WithStatistics(attrs, stat) ==
    IF stat.raised # NoError
    THEN [obj |-> NoObject, raised |-> stat.raised, calls |-> stat.calls,
          stat |-> stat]
    ELSE ValidatedObject(IF ~stat.none /\ stat.loc # << >>
                         THEN attrs @@ ("lines_of_code" :> stat.loc)
                         ELSE attrs,
                         stat)

\* if sloc: lines_of_code = self.sloc(self.files, self.root)
SourceOfAttrs(attrs, want_sloc, run) ==
    WithStatistics(attrs,
                   IF want_sloc THEN sloc(attrs["files"], attrs["root"], run)
                   ELSE NoStatistics)

\* Source(root, files, sloc): the constructor, with the runs of the sloc tool
\* it causes.  Returns the object (NoObject if an exception left the
\* constructor), the exception and the tool runs.
SourceNew(root, files, want_sloc, run) ==
    SourceOfAttrs(SourceAttrs(root, files), want_sloc, run)

\* Action: a caller constructs Source(root, files, sloc)
SourceInit(root, files, want_sloc, run) ==
    /\ pc = "new"
    /\ \E new \in {SourceNew(root, files, want_sloc, run)} :
           /\ self' = new.obj
           /\ raised' = new.raised
           /\ calls' = calls \o new.calls
           /\ local' = [sloc |-> [none |-> new.stat.none, loc |-> new.stat.loc]]
    /\ args' = [op |-> "Source", root |-> root, files |-> files,
                sloc |-> want_sloc]
    /\ pc' = "done"
    /\ UNCHANGED written

\* Action: a caller runs the static method Source.sloc(files, root)
SlocCall(files, root, run) ==
    /\ pc = "new"
    /\ \E stat \in {sloc(files, root, run)} :
           /\ raised' = stat.raised
           /\ calls' = calls \o stat.calls
           /\ local' = [sloc |-> [none |-> stat.none, loc |-> stat.loc]]
    /\ args' = [op |-> "sloc", root |-> root, files |-> files, sloc |-> TRUE]
    /\ pc' = "done"
    /\ UNCHANGED << self, written >>

----------------------------------------------------------------------------
(* Inputs of the Source constructor *)

\* Source roots: none, /r, /r/ (not normalized), r (relative), /u
Roots ==
    { << >>,
      << "/", "r" >>,
      << "/", "r", "/" >>,
      << "r" >>,
      << "/", "u" >> }

\* Paths: under /r, under /r after normalization, in the sibling /rx,
\* outside every root, relative to the working directory
PathPool ==
    { << "/", "r", "/", "a", ".", "c" >>,
      << "/", "r", "/", "s", "/", ".", ".", "/", "a", ".", "c" >>,
      << "/", "r", "/", "/", "s", "/", "b", ".", "c" >>,
      << "/", "r", "x", "/", "a", ".", "c" >>,
      << "/", "u", "/", "h", ".", "h" >>,
      << "r", "/", "b", ".", "c" >> }

RECURSIVE ListsUpTo(_, _)
ListsUpTo(S, n) ==
    IF n = 0 THEN {<< >>}
    ELSE LET shorter == ListsUpTo(S, n - 1)
         IN  shorter \cup {Append(l, x) : l \in shorter, x \in S}

\* A long list of files x000, x001, ... relative to the root
Digits3(i) ==
    << Alphabet[Ord["0"] + ((i \div 100) % 10)],
       Alphabet[Ord["0"] + ((i \div 10) % 10)],
       Alphabet[Ord["0"] + (i % 10)] >>

Bulk(n) == [i \in 1..n |-> << "x" >> \o Digits3(i - 1)]

BulkSizes ==
    {n \in 0..(MaxBatches * BatchSize) :
        n % BatchSize \in {0, 1, BatchSize - 1}}

\* What one run of the sloc tool does
SlocSummaries ==
    { ("total" :> [t |-> "int", v |-> 3]) @@ ("source" :> [t |-> "int", v |-> 2]),
      ("total" :> [t |-> "str", v |-> << "1", "2" >>]) @@ ("comment" :> [t |-> "int", v |-> 1]) }

SlocErrors ==
    { [type |-> "FileNotFoundError", errno |-> 2],
      [type |-> "OSError", errno |-> 7],
      [type |-> "OSError", errno |-> 13],
      [type |-> "CalledProcessError", errno |-> 1] }

\* The outcomes of the first k runs of the tool
SlocRuns(k) ==
    [1..k -> {[ok |-> TRUE, summary |-> s] : s \in SlocSummaries}
             \cup {[ok |-> FALSE, error |-> e] : e \in SlocErrors}]

----------------------------------------------------------------------------
(* Specification of the Source constructor *)

InitSource ==
    /\ pc = "new"
    /\ args = [op |-> "none"]
    /\ self = NoObject
    /\ raised = NoError
    /\ calls = << >>
    /\ written = << >>
    /\ local = << >>

NextSource ==
    \/ \E root \in Roots, files \in ListsUpTo(PathPool, MaxFiles) :
          \/ SourceInit(root, files, FALSE, << >>)
          \/ \E run \in SlocRuns(1) : SourceInit(root, files, TRUE, run)
    \/ \E n \in BulkSizes, run \in SlocRuns(MaxBatches) :
          SlocCall(Bulk(n), << "/", "r" >>, run)

SpecSource == InitSource /\ [][NextSource]_vars

----------------------------------------------------------------------------
(* Source.__str__ and the JSON documents *)

JSON_TAG == "viewer-source"

\* json.dumps of the values a Source holds: a JSON text is modelled by its
\* syntax tree, [t |-> kind, v |-> content]
JsonString(s) == [t |-> "string", v |-> s]
JsonNumber(n) == [t |-> "number", v |-> n]
JsonStringArray(xs) == [t |-> "array", v |-> [i \in DOMAIN xs |-> JsonString(xs[i])]]
JsonNumberObject(d) == [t |-> "object", v |-> [k \in DOMAIN d |-> JsonNumber(d[k])]]

JsonOfSource(d) ==
    [t |-> "object",
     v |-> [k \in DOMAIN d |->
              IF k = "root" THEN JsonString(d[k])
              ELSE IF k = "lines_of_code" THEN JsonNumberObject(d[k])
              ELSE JsonStringArray(d[k])]]

\* Source.__str__: json.dumps({JSON_TAG: self.__repr__()})
SourceStr(d) == [t |-> "object", v |-> (JSON_TAG :> JsonOfSource(d))]

\* json.loads: the Python value of a JSON syntax tree
RECURSIVE JsonLoads(_)
JsonLoads(j) ==
    IF j.t \in {"string", "number"} THEN j.v
    ELSE [k \in DOMAIN j.v |-> JsonLoads(j.v[k])]

\* Action: str(self) / self.dump() writes the document out.json; the process
\* ends and a later one may read the document
Dump ==
    /\ pc = "done"
    /\ self # NoObject
    /\ raised = NoError
    /\ Validate(self)
    /\ written' = [text |-> SourceStr(self), obj |-> self]
    /\ pc' = "new"
    /\ UNCHANGED << args, self, raised, calls, local >>

----------------------------------------------------------------------------
(* SourceFromJson.__init__ *)

\* The files a merge may be given: out.json is the document written by Dump
\* (missing before that); a.json, b.json and u.json were written by earlier
\* runs; notes.txt is not JSON; symbols.json is JSON without the tag.
DocNames == {"out.json", "a.json", "b.json", "u.json", "notes.txt", "symbols.json"}

EarlierRoot(name) == IF name = "u.json" THEN << "/", "u" >> ELSE << "/", "r" >>

EarlierFiles(name) ==
    CASE name = "a.json" ->
            << << "/", "r", "/", "a", ".", "c" >>,
               << "/", "u", "/", "h", ".", "h" >> >>
      [] name = "b.json" ->
            << << "/", "r", "/", "s", "/", "b", ".", "c" >>,
               << "/", "r", "/", "a", ".", "c" >> >>
      [] name = "u.json" ->
            << << "/", "u", "/", "h", ".", "h" >> >>

FileContent(name) ==
    CASE name = "out.json" ->
            IF written = << >> THEN [kind |-> "missing"]
            ELSE [kind |-> "json", text |-> written.text]
      [] name \in {"a.json", "b.json", "u.json"} ->
            [kind |-> "json",
             text |-> SourceStr(SourceNew(EarlierRoot(name), EarlierFiles(name),
                                          FALSE, << >>).obj)]
      [] name = "notes.txt" -> [kind |-> "garbage"]
      [] name = "symbols.json" ->
            [kind |-> "json",
             text |-> [t |-> "object",
                       v |-> ("viewer-symbol" :> [t |-> "object", v |-> << >>])]]

\* parse.parse_json_file: the parsed document, or None when the file cannot
\* be read or parsed
parse_json_file(content) ==
    IF content.kind = "json"
    THEN [none |-> FALSE, value |-> JsonLoads(content.text)]
    ELSE [none |-> TRUE]

\* source = parsed[JSON_TAG] in try ... except TypeError, then
\* self.validate(source)
Tagged(parsed) ==
    IF parsed.none
    THEN \* None[JSON_TAG] is a TypeError
         [raised |-> [type |-> "UserWarning",
                      msg |-> "Failed to load sources from"]]
    ELSE IF ~Has(parsed.value, JSON_TAG)
    THEN \* a dict without the key: KeyError, which load does not catch
         [raised |-> [type |-> "KeyError", msg |-> JSON_TAG]]
    ELSE IF ~Validate(parsed.value[JSON_TAG])
    THEN [raised |-> [type |-> "Invalid"]]
    ELSE [raised |-> NoError, source |-> parsed.value[JSON_TAG]]

\* load(source_json)
Load(content) == Tagged(parse_json_file(content))

\* merge(sources)
MergeFirstFilesOnly(sources) ==
    LET roots == {sources[i]["root"] : i \in 1..Len(sources)}
        files == Range(sources[1]["all_files"])
    IN  IF Cardinality(roots) # 1
        THEN [raised |-> [type |-> "UserWarning",
                          msg |-> "Source lists have different roots",
                          roots |-> roots]]
        ELSE [raised |-> NoError,
              root |-> CHOOSE r \in roots : TRUE,
              files |-> files]

Merge(sources) ==
    LET roots == {sources[i]["root"] : i \in 1..Len(sources)}
        files == UNION {Range(sources[i]["all_files"]) : i \in 1..Len(sources)}
    IN  IF Cardinality(roots) # 1
        THEN [raised |-> [type |-> "UserWarning",
                          msg |-> "Source lists have different roots",
                          roots |-> roots]]
        ELSE [raised |-> NoError,
              root |-> CHOOSE r \in roots : TRUE,
              files |-> files]

\* list(a set of str): the members in some order (the constructor sorts them)
ListOfSet(S) == SortedList(S)

\* super().__init__(source['root'], source['files'], sloc)
SourceOfMerged(source) ==
    IF source.raised # NoError
    THEN [obj |-> NoObject, raised |-> source.raised]
    ELSE [obj |-> SourceNew(source.root, ListOfSet(source.files),
                            FALSE, << >>).obj,
          raised |-> NoError]

\* merge([load(source_json) for source_json in source_jsons]): the first
\* load that raises ends the construction
SourceOfLoaded(loaded) ==
    IF \E i \in 1..Len(loaded) : loaded[i].raised # NoError
    THEN [obj |-> NoObject,
          raised |-> loaded[Min({i \in 1..Len(loaded) :
                                    loaded[i].raised # NoError})].raised]
    ELSE SourceOfMerged(Merge([i \in 1..Len(loaded) |-> loaded[i].source]))

\* SourceFromJson(source_jsons): contents[i] is what file source_jsons[i]
\* holds.  Returns the object and the exception.
SourceFromJsonNew(contents) ==
    IF contents = << >>
    THEN [obj |-> NoObject, raised |-> [type |-> "UserWarning", msg |-> "No sources"]]
    ELSE SourceOfLoaded([i \in 1..Len(contents) |-> Load(contents[i])])

\* Action: a caller constructs SourceFromJson(source_jsons)
SourceFromJsonInit(source_jsons) ==
    /\ pc = "new"
    /\ \E contents \in {[i \in 1..Len(source_jsons) |->
                               FileContent(source_jsons[i])]} :
         \E new \in {SourceFromJsonNew(contents)} :
           /\ self' = new.obj
           /\ raised' = new.raised
           /\ args' = [op |-> "SourceFromJson", source_jsons |-> source_jsons,
                       contents |-> contents]
    /\ local' = << >>
    /\ pc' = "done"
    /\ UNCHANGED << calls, written >>

----------------------------------------------------------------------------
(* Specification of writing documents and merging them *)

MaxDocs == 2

NextMerge ==
    \/ \E root \in { << >>, << "/", "r" >> },
          files \in ListsUpTo({ << "/", "r", "/", "a", ".", "c" >>,
                                << "/", "r", "/", "/", "s", "/", "b", ".", "c" >>,
                                << "/", "u", "/", "h", ".", "h" >> }, MaxFiles) :
          SourceInit(root, files, FALSE, << >>)
    \/ Dump
    \/ \E source_jsons \in ListsUpTo(DocNames, MaxDocs) :
          SourceFromJsonInit(source_jsons)

SpecMerge == InitSource /\ [][NextMerge]_vars

----------------------------------------------------------------------------
(* Regular expressions (re.match with re.I) *)

\* A pattern is [alts, to_end]: the alternatives, each a sequence of tokens
\* [any, ch, star] (any character or the character ch, starred or not), and
\* whether the pattern ends with $.
None == [none |-> TRUE]

Lit(c) == [any |-> FALSE, ch |-> c, star |-> FALSE]
AnyStar == [any |-> TRUE, ch |-> " ", star |-> TRUE]

\* toks[i..] matches a prefix of str[j..] (all of it when to_end), ignoring case
RECURSIVE MatchTokens(_, _, _, _, _)
MatchTokens(toks, i, str, j, to_end) ==
    IF i > Len(toks) THEN (~to_end \/ j > Len(str))
    ELSE IF toks[i].star
    THEN \/ MatchTokens(toks, i + 1, str, j, to_end)
         \/ /\ j <= Len(str)
            /\ toks[i].any \/ LowerChar(toks[i].ch) = LowerChar(str[j])
            /\ MatchTokens(toks, i, str, j + 1, to_end)
    ELSE /\ j <= Len(str)
         /\ toks[i].any \/ LowerChar(toks[i].ch) = LowerChar(str[j])
         /\ MatchTokens(toks, i + 1, str, j + 1, to_end)

\* re.match(pattern, str, re.I) is not None
ReMatch(pattern, str) ==
    \E toks \in pattern.alts : MatchTokens(toks, 1, str, 1, pattern.to_end)

----------------------------------------------------------------------------
(* select_source_files *)

\* if exclude is not None: [path for path in files if not re.match(...)]
NotExcluded(files, exclude) ==
    IF exclude = None THEN files
    ELSE SelectSeq(files, LAMBDA path : ~ReMatch(exclude, path))

\* if extensions is not None: [path ... if re.match(extensions, splitext(path)[1])]
WithExtension(files, extensions) ==
    IF extensions = None THEN files
    ELSE SelectSeq(files, LAMBDA path : ReMatch(extensions, OsSplitextExt(path)))

select_source_files(files, root, exclude, extensions) ==
    Map(WithExtension(NotExcluded(Map(files, OsNormpath), exclude), extensions),
        LAMBDA path : OsJoin(root, path))

----------------------------------------------------------------------------
(* SourceFromFind and SourceFromWalk *)

\* A source tree is the set of its files, each a path relative to the root.
\* The directories of a tree: the proper prefixes of its files' paths.
DirsOf(tree) ==
    UNION {{SubSeq(f, 1, i - 1) : i \in {j \in 1..Len(f) : f[j] = "/"}} :
           f \in tree}

\* runt.run(['find', '-L', '.'], root).strip().splitlines(): the root as '.',
\* then every directory and file under it as './path'
FindOutput(tree) ==
    << << "." >> >>
        \o Map(SortedList((DirsOf(tree) \ {<< >>}) \cup tree),
               LAMBDA path : << ".", "/" >> \o path)

SourceFromFind_find_sources(root, tree, exclude, extensions) ==
    select_source_files(FindOutput(tree), root, exclude, extensions)

\* name.lower().endswith(('.h', '.c', '.inl'))
IsSourceName(name) ==
    \/ EndsWith(Lower(name), << ".", "h" >>)
    \/ EndsWith(Lower(name), << ".", "c" >>)
    \/ EndsWith(Lower(name), << ".", "i", "n", "l" >>)

\* the directory part of a relative path ('' for a file at the top)
DirName(f) == SubSeq(f, 1, Len(f) - Len(OsBasename(f)) - 1)

\* for path, _, filenames in os.walk(root): os.path.join(path, name), where
\* path is root itself at the top and os.path.join(root, dir) below it
WalkOutput(root, tree) ==
    Map(SelectSeq(SortedList(tree), LAMBDA f : IsSourceName(OsBasename(f))),
        LAMBDA f : OsJoin(IF DirName(f) = << >> THEN root
                          ELSE OsJoin(root, DirName(f)),
                          OsBasename(f)))

SourceFromWalk_find_sources(root, tree, exclude, extensions) ==
    select_source_files(WalkOutput(root, tree), root, exclude, extensions)

\* Action: a caller runs select_source_files(files, root, exclude, extensions)
SelectCall(files, root, exclude, extensions) ==
    /\ pc = "new"
    /\ local' = [found |-> select_source_files(files, root, exclude, extensions)]
    /\ args' = [op |-> "select", root |-> root, files |-> files,
                exclude |-> exclude, extensions |-> extensions]
    /\ raised' = NoError
    /\ pc' = "done"
    /\ UNCHANGED << self, calls, written >>

\* super().__init__(root, files, sloc) after find_sources
WithFound(new, found, log) ==
    [obj |-> new.obj, raised |-> new.raised, found |-> found, calls |-> log]

SourceOfFiles(root, found, log) ==
    WithFound(SourceNew(root, found, FALSE, << >>), found, log)

SourceFromFindNew(root, tree, exclude, extensions) ==
    SourceOfFiles(root,
                  SourceFromFind_find_sources(root, tree, exclude, extensions),
                  << [cmd |-> "find", cwd |-> root] >>)

SourceFromWalkNew(root, tree, exclude, extensions) ==
    SourceOfFiles(root,
                  SourceFromWalk_find_sources(root, tree, exclude, extensions),
                  << [cmd |-> "os.walk", cwd |-> root] >>)

\* Action: a caller constructs SourceFromFind(root, exclude, extensions) on a
\* source tree
SourceFromFindInit(root, tree, exclude, extensions) ==
    /\ pc = "new"
    /\ \E new \in {SourceFromFindNew(root, tree, exclude, extensions)} :
           /\ local' = [found |-> new.found]
           /\ self' = new.obj
           /\ raised' = new.raised
           /\ calls' = calls \o new.calls
    /\ args' = [op |-> "SourceFromFind", root |-> root, tree |-> tree,
                exclude |-> exclude, extensions |-> extensions]
    /\ pc' = "done"
    /\ UNCHANGED written

\* Action: a caller constructs SourceFromWalk(root, exclude, extensions) on a
\* source tree
SourceFromWalkInit(root, tree, exclude, extensions) ==
    /\ pc = "new"
    /\ \E new \in {SourceFromWalkNew(root, tree, exclude, extensions)} :
           /\ local' = [found |-> new.found]
           /\ self' = new.obj
           /\ raised' = new.raised
           /\ calls' = calls \o new.calls
    /\ args' = [op |-> "SourceFromWalk", root |-> root, tree |-> tree,
                exclude |-> exclude, extensions |-> extensions]
    /\ pc' = "done"
    /\ UNCHANGED written

----------------------------------------------------------------------------
(* Specification of the directory scans *)

MaxTree == 2

\* Files of a source tree, relative to its root
TreeFiles ==
    { << "x", ".", "c" >>,
      << "x", ".", "b", "a", "k" >>,
      << "X", ".", "H" >>,
      << "s", "/", "b", ".", "c" >>,
      << "s", "/", "n", "o", "t", "e", "s" >> }

Trees == {t \in SUBSET TreeFiles : Cardinality(t) <= MaxTree}

\* exclude: None, .*\.bak, s/
Excludes ==
    { None,
      [alts |-> {<< AnyStar, Lit("."), Lit("b"), Lit("a"), Lit("k") >>},
       to_end |-> FALSE],
      [alts |-> {<< Lit("s"), Lit("/") >>}, to_end |-> FALSE] }

\* extensions: None, ^\.(c|h)$
Extensions ==
    { None,
      [alts |-> {<< Lit("."), Lit("c") >>, << Lit("."), Lit("h") >>},
       to_end |-> TRUE] }

NextScan ==
    \E root \in { << "/", "r" >>, << "/", "r", "/" >> },
       exclude \in Excludes, extensions \in Extensions :
        \/ \E files \in ListsUpTo({ << "x", ".", "c" >>,
                                    << "x", ".", "b", "a", "k" >>,
                                    << ".", "/", "s", "/", "/", "b", ".", "c" >> }, MaxFiles) :
              SelectCall(files, root, exclude, extensions)
        \/ \E tree \in Trees :
              SourceFromFindInit(root, tree, exclude, extensions)
        \/ \E tree \in Trees :
              SourceFromWalkInit(root, tree, exclude, extensions)

SpecScan == InitSource /\ [][NextScan]_vars

----------------------------------------------------------------------------
(* Text of the make output and of the preprocessor output *)

Whitespace == {" ", "\n"}

\* the elements of seq at the indices in keep, in order
Pick(seq, keep) ==
    [k \in 1..Cardinality(keep) |->
        seq[CHOOSE i \in keep : Cardinality({j \in keep : j < i}) = k - 1]]

\* s.strip()
Strip(s) ==
    LET inked == {i \in 1..Len(s) : s[i] \notin Whitespace}
    IN  IF inked = {} THEN << >> ELSE SubSeq(s, Min(inked), Max(inked))

DropLastEmpty(parts) ==
    IF parts[Len(parts)] = << >> THEN SubSeq(parts, 1, Len(parts) - 1)
    ELSE parts

\* text.splitlines()
SplitLines(text) ==
    IF text = << >> THEN << >> ELSE DropLastEmpty(Split(text, "\n"))

\* result.replace('\\\n', '')
StripContinuations(text) ==
    Pick(text,
         {i \in 1..Len(text) :
            /\ ~(text[i] = "\\" /\ i < Len(text) /\ text[i + 1] = "\n")
            /\ ~(text[i] = "\n" /\ i > 1 /\ text[i - 1] = "\\")})

\* the end of the run of non-blank characters of s that starts at j
RunEnd(s, j) ==
    LET blanks == {k \in j..Len(s) : s[k] \in Whitespace}
    IN  IF blanks = {} THEN Len(s) ELSE Min(blanks) - 1

\* re.search(r' -o (\S+) ', cmd): the positions where the pattern matches
OutputMatches(cmd) ==
    {i \in 1..Len(cmd) :
        /\ i + 4 <= Len(cmd)
        /\ SubSeq(cmd, i, i + 3) = << " ", "-", "o", " " >>
        /\ RunEnd(cmd, i + 4) >= i + 4
        /\ RunEnd(cmd, i + 4) < Len(cmd)}

\* match.group(1) of the leftmost match
OutputOf(cmd) ==
    SubSeq(cmd, Min(OutputMatches(cmd)) + 4,
           RunEnd(cmd, Min(OutputMatches(cmd)) + 4))

\* re.search(r'"(.*)"', line): from the first double quote to the last one
Quotes(line) == {i \in 1..Len(line) : line[i] = "\""}

QuotedMatches(line) == Cardinality(Quotes(line)) >= 2

QuotedGroup(line) ==
    SubSeq(line, Min(Quotes(line)) + 1, Max(Quotes(line)) - 1)

----------------------------------------------------------------------------
(* SourceFromMake *)

\* runt.run(cmd, cwd, ignored): the standard output of the command, or
\* CalledProcessError when its exit code is neither 0 nor in ignored
run(returncode, stdout, ignored) ==
    IF returncode # 0 /\ returncode \notin ignored
    THEN [raised |-> [type |-> "CalledProcessError", returncode |-> returncode],
          out |-> << >>]
    ELSE [raised |-> NoError, out |-> stdout]

\* [line.strip() for line in result.splitlines()
\*  if line.strip().startswith('goto-cc')]
GotoCcLines(result) ==
    Map(SelectSeq(SplitLines(result),
                  LAMBDA line :
                      StartsWith(Strip(line),
                                 << "g", "o", "t", "o", "-", "c", "c" >>)),
        Strip)

\* ignored=[2]
IgnoredExits == {2}

CommandsOf(result) ==
    [raised |-> result.raised,
     commands |-> IF result.raised = NoError
                  THEN GotoCcLines(StripContinuations(result.out))
                  ELSE << >>]

build_with_preprocessor(build, returncode, stdout) ==
    CommandsOf(run(returncode, stdout, IgnoredExits))

extract_filenames(commands, build) ==
    Map(SelectSeq(commands, LAMBDA cmd : OutputMatches(cmd) # {}),
        LAMBDA cmd : OsAbspath(OsJoin(build, OutputOf(cmd))))

\* The contents of the file system after the build: a function from paths to
\* [kind |-> "text", text |-> ...]; a path outside its domain does not exist.
Missing == [kind |-> "missing"]

FsContent(fs, name) == IF name \in DOMAIN fs THEN fs[name] ELSE Missing

\* except FileNotFoundError: pass, without the except clause
ReadFileNoCatch(content) ==
    IF content.kind = "missing"
    THEN [raised |-> [type |-> "FileNotFoundError", errno |-> 2],
          lines |-> << >>]
    ELSE [raised |-> NoError, lines |-> SplitLines(content.text)]

\* with open(name) as handle: handle.read().splitlines(), FileNotFoundError
\* caught
ReadFile(content) ==
    IF content.kind = "missing"
    THEN [raised |-> NoError, lines |-> << >>]
    ELSE [raised |-> NoError, lines |-> SplitLines(content.text)]

RECURSIVE ReadLoop(_, _, _, _, _)
ReadStep(files, fs, i, output, log, got) ==
    IF got.raised # NoError
    THEN [raised |-> got.raised, output |-> << >>,
          calls |-> Append(log, [cmd |-> "open", file |-> files[i],
                                 found |-> FALSE])]
    ELSE ReadLoop(files, fs, i + 1, output \o got.lines,
                  Append(log, [cmd |-> "open", file |-> files[i],
                               found |-> FsContent(fs, files[i]) # Missing]))

ReadLoop(files, fs, i, output, log) ==
    IF i > Len(files)
    THEN [raised |-> NoError, output |-> output, calls |-> log]
    ELSE ReadStep(files, fs, i, output, log,
                  ReadFile(FsContent(fs, files[i])))

read_output(files, fs) == ReadLoop(files, fs, 1, << >>, << >>)

\* '<built-in>', '<command-line>', '<command line>'
Generated ==
    { << "<", "b", "u", "i", "l", "t", "-", "i", "n", ">" >>,
      << "<", "c", "o", "m", "m", "a", "n", "d", "-", "l", "i", "n", "e",
         ">" >>,
      << "<", "c", "o", "m", "m", "a", "n", "d", " ", "l", "i", "n", "e",
         ">" >> }

\* linemarkers = [line for line in output if line.strip().startswith('# ')]
Linemarkers(output) ==
    SelectSeq(output, LAMBDA line : StartsWith(Strip(line), << "#", " " >>))

\* names that are not generated by the preprocessor, joined with the build
\* directory, normalized, sorted and without duplicates
SourceNames(filenames, build) ==
    SortedSet(
        Map(SelectSeq(filenames,
                      LAMBDA name : OsBasename(name) \notin Generated),
            LAMBDA name : OsNormpath(OsJoin(build, name))))

\* re.search(...).group(1) raises AttributeError when the search finds nothing
FilenamesOf(linemarkers, build) ==
    IF \E i \in 1..Len(linemarkers) : ~QuotedMatches(linemarkers[i])
    THEN [raised |-> [type |-> "AttributeError"], names |-> << >>]
    ELSE [raised |-> NoError,
          names |-> SourceNames(Map(linemarkers, QuotedGroup), build)]

extract_source_filenames(output, build) ==
    FilenamesOf(Linemarkers(output), build)

\* find_sources: what the environment does is env, a record of the exit code
\* of the first make clean (clean1), the exit code and output of the build
\* (build_rc, build_out), the files found afterwards (fs), and the exit code
\* of the second make clean (clean2).
MakeClean(build, returncode) ==
    [cmd |-> "make clean", cwd |-> build, returncode |-> returncode]

MakeGoto(build, returncode) ==
    [cmd |-> "make goto", cwd |-> build, returncode |-> returncode]

Stopped(err, log, seen) ==
    [raised |-> err, found |-> << >>, calls |-> log, seen |-> seen]

\* runt.run(['make', 'clean'], build); return source_files
AfterExtract(build, env, log, seen, names, cleaned) ==
    IF cleaned.raised # NoError
    THEN Stopped(cleaned.raised, Append(log, MakeClean(build, env.clean2)), seen)
    ELSE [raised |-> NoError, found |-> names,
          calls |-> Append(log, MakeClean(build, env.clean2)), seen |-> seen]

\* source_files = self.extract_source_filenames(preprocessed_output, build)
AfterRead(build, env, log, seen, extracted) ==
    IF extracted.raised # NoError
    THEN Stopped(extracted.raised, log, seen)
    ELSE AfterExtract(build, env, log, seen, extracted.names,
                      run(env.clean2, << >>, {}))

\* preprocessed_output = self.read_output(preprocessed_filenames)
AfterFilenames(build, env, log, seen, read) ==
    IF read.raised # NoError
    THEN Stopped(read.raised, log \o read.calls, seen)
    ELSE AfterRead(build, env, log \o read.calls,
                   [seen EXCEPT !.output = read.output],
                   extract_source_filenames(read.output, build))

\* preprocessed_filenames = self.extract_filenames(preprocessor_commands, build)
AfterCommands(build, env, log, commands, filenames) ==
    AfterFilenames(build, env, log,
                   [commands |-> commands, filenames |-> filenames,
                    output |-> << >>],
                   read_output(filenames, env.fs))

\* preprocessor_commands = self.build_with_preprocessor(build)
AfterClean(build, env, log, built) ==
    IF built.raised # NoError
    THEN Stopped(built.raised, log, << >>)
    ELSE AfterCommands(build, env, log, built.commands,
                       extract_filenames(built.commands, build))

\* runt.run(['make', 'clean'], build)
AfterStart(build, env, cleaned) ==
    IF cleaned.raised # NoError
    THEN Stopped(cleaned.raised, << MakeClean(build, env.clean1) >>, << >>)
    ELSE AfterClean(build, env,
                    << MakeClean(build, env.clean1),
                       MakeGoto(build, env.build_rc) >>,
                    build_with_preprocessor(build, env.build_rc, env.build_out))

SourceFromMake_find_sources(build, env) ==
    AfterStart(build, env, run(env.clean1, << >>, {}))

\* super().__init__(root, files, sloc)
SourceOfFound(scan, new) ==
    [obj |-> new.obj, raised |-> new.raised, calls |-> scan.calls \o new.calls,
     found |-> scan.found, seen |-> scan.seen]

SourceOfScan(root, scan, want_sloc, sloc_run) ==
    IF scan.raised # NoError
    THEN [obj |-> NoObject, raised |-> scan.raised, calls |-> scan.calls,
          found |-> scan.found, seen |-> scan.seen]
    ELSE SourceOfFound(scan, SourceNew(root, scan.found, want_sloc, sloc_run))

SourceFromMakeNew(root, build, want_sloc, env, sloc_run) ==
    SourceOfScan(root, SourceFromMake_find_sources(build, env), want_sloc,
                 sloc_run)

\* Action: a caller constructs SourceFromMake(root, build, sloc)
SourceFromMakeInit(root, build, want_sloc, env, sloc_run) ==
    /\ pc = "new"
    /\ \E new \in {SourceFromMakeNew(root, build, want_sloc, env, sloc_run)} :
           /\ self' = new.obj
           /\ raised' = new.raised
           /\ calls' = calls \o new.calls
           /\ local' = [found |-> new.found, seen |-> new.seen]
    /\ args' = [op |-> "SourceFromMake", root |-> root, build |-> build,
                sloc |-> want_sloc, env |-> env]
    /\ pc' = "done"
    /\ UNCHANGED written

\* Action: a caller runs SourceFromMake.extract_source_filenames(output, build)
ExtractSourceFilenamesCall(output, build) ==
    /\ pc = "new"
    /\ \E got \in {extract_source_filenames(output, build)} :
           /\ raised' = got.raised
           /\ local' = [found |-> got.names]
    /\ args' = [op |-> "extract_source_filenames", output |-> output,
                build |-> build]
    /\ pc' = "done"
    /\ UNCHANGED << self, calls, written >>

\* Action: a caller runs SourceFromMake.extract_filenames(commands, build)
ExtractFilenamesCall(commands, build) ==
    /\ pc = "new"
    /\ local' = [found |-> extract_filenames(commands, build)]
    /\ raised' = NoError
    /\ args' = [op |-> "extract_filenames", commands |-> commands,
                build |-> build]
    /\ pc' = "done"
    /\ UNCHANGED << self, calls, written >>

----------------------------------------------------------------------------
(* Specification of SourceFromMake *)

MaxCmds == 2
MaxLines == 2

\* Lines of the make output
MakeLine ==
    [compile |->
        << "g", "o", "t", "o", "-", "c", "c", " ", "-", "E", " ", "-", "o",
           " ", "a", ".", "o", " ", "a", ".", "c" >>,
     compile_abs |->
        << "g", "o", "t", "o", "-", "c", "c", " ", "-", "E", " ", "-", "o",
           " ", "/", "w", "/", "k", ".", "o", " ", "k", ".", "c" >>,
     link |->
        << " ", " ", "g", "o", "t", "o", "-", "c", "c", " ", "-", "E", " ",
           "\\", "\n", " ", "-", "o", " ", "m", ".", "o", " ", "a", ".",
           "o" >>,
     output_last |->
        << "g", "o", "t", "o", "-", "c", "c", " ", "-", "E", " ", "a", ".",
           "c", " ", "-", "o", " ", "a", ".", "o" >>,
     other |->
        << "r", "m", " ", "-", "f", " ", "x" >>,
     no_output |->
        << "g", "o", "t", "o", "-", "c", "c", " ", "-", "E", " ", "a", ".",
           "c" >>]

\* The lines of a build
MakeLines == {MakeLine.compile, MakeLine.link, MakeLine.other}

Newline == << "\n" >>

\* The make output: up to MaxCmds lines, each ended by a newline
MakeOutputs ==
    {Join(<< >>, Map(lines, LAMBDA l : l \o Newline)) :
        lines \in ListsUpTo(MakeLines, MaxCmds)}

\* Lines of the preprocessor output
OutputLine ==
    [marker |->
        << "#", " ", "1", " ", "\"", "/", "r", "/", "a", ".", "c", "\"" >>,
     built_in |->
        << "#", " ", "1", " ", "\"", "<", "b", "u", "i", "l", "t", "-",
           "i", "n", ">", "\"", " ", "3" >>,
     relative |->
        << "#", " ", "2", " ", "\"", ".", ".", "/", "h", ".", "h", "\"",
           " ", "1" >>,
     directive |->
        << "#", "p", "r", "a", "g", "m", "a", " ", "o", "n", "c", "e" >>,
     comment |->
        << "#", " ", "n", "o", "p" >>,
     indented |->
        << " ", " ", "#", " ", "1", " ", "\"", "/", "r", "/", "k", ".",
           "c", "\"" >>,
     code |->
        << "i", "n", "t", " ", "x", ";" >>]

\* Preprocessor output files
Text(lines) ==
    [kind |-> "text", text |-> Join(<< >>, Map(lines, LAMBDA l : l \o Newline))]

BuildDir == << "/", "r", "/", "b" >>

MakeRoot == << "/", "r" >>

OutputPaths ==
    { << "/", "r", "/", "b", "/", "a", ".", "o" >>,
      << "/", "r", "/", "b", "/", "m", ".", "o" >> }

FileSystems ==
    UNION {[paths ->
               { Text(<< OutputLine.marker, OutputLine.built_in,
                         OutputLine.relative >>),
                 Text(<< OutputLine.directive, OutputLine.code,
                         OutputLine.relative >>),
                 Text(<< OutputLine.marker, OutputLine.comment >>) }] :
           paths \in SUBSET OutputPaths}

\* The environments of a run: the first clean fails; the build fails; the
\* build returns 0 or 2 and the run goes on; the second clean fails
MakeEnvs ==
    {[clean1 |-> 1, build_rc |-> 0, build_out |-> << >>,
      fs |-> << >>, clean2 |-> 0]}
    \cup
    {[clean1 |-> 0, build_rc |-> 1, build_out |-> MakeLine.compile \o Newline,
      fs |-> fs, clean2 |-> 0] :
        fs \in FileSystems}
    \cup
    {[clean1 |-> 0, build_rc |-> rc, build_out |-> out,
      fs |-> fs, clean2 |-> 0] :
        rc \in {0} \cup IgnoredExits, out \in MakeOutputs, fs \in FileSystems}
    \cup
    {[clean1 |-> 0, build_rc |-> rc, build_out |-> MakeLine.compile \o Newline,
      fs |-> fs, clean2 |-> 1] :
        rc \in {0} \cup IgnoredExits, fs \in FileSystems}

\* The constructor on every environment, and with the lines of code counted
\* on the environments of one compile command and one output file; the two
\* extraction functions on lists of lines
NextMake ==
    \/ \E env \in MakeEnvs :
          SourceFromMakeInit(MakeRoot, BuildDir, FALSE, env, << >>)
    \/ \E env \in {e \in MakeEnvs :
                      /\ e.build_out = MakeLine.compile \o Newline
                      /\ DOMAIN e.fs = {BuildDir \o << "/", "a", ".", "o" >>}},
          sloc_run \in SlocRuns(1) :
          SourceFromMakeInit(MakeRoot, BuildDir, TRUE, env, sloc_run)
    \/ \E output \in ListsUpTo({OutputLine[k] : k \in DOMAIN OutputLine},
                               MaxLines),
          build \in {BuildDir, << "b" >>} :
          ExtractSourceFilenamesCall(output, build)
    \/ \E lines \in ListsUpTo({MakeLine.compile, MakeLine.compile_abs,
                               MakeLine.link, MakeLine.output_last,
                               MakeLine.no_output}, MaxCmds),
          build \in {BuildDir, << "b" >>} :
          ExtractFilenamesCall(
              Map(lines, LAMBDA l : Strip(StripContinuations(l))), build)

SpecMake == InitSource /\ [][NextMake]_vars

----------------------------------------------------------------------------
(* SourceFromGoto and make_source *)

\* An argument that may be None: None, or Str(v) for the string v
Str(v) == [none |-> FALSE, v |-> v]

\* the truth value of an argument
Truthy(x) == x # None /\ x.v # << >>

\* the string a constructor works with (None is not told from '')
ValueOf(x) == IF x = None THEN << >> ELSE x.v

\* symbol_table.source_files(goto, wkdir) gives the set symbols
SourceFromGotoNew(goto, wkdir, srcdir, symbols) ==
    IF ~Truthy(goto)
    THEN [obj |-> NoObject,
          raised |-> [type |-> "UserWarning", msg |-> "No goto program"],
          calls |-> << >>]
    ELSE WithFound(SourceNew(ValueOf(srcdir), SortedList(symbols), FALSE, << >>),
                   SortedList(symbols),
                   << [cmd |-> "symbol_table", goto |-> goto.v,
                       cwd |-> ValueOf(wkdir)] >>)

\* fail(msg)
Fail(msg) ==
    [invoked |-> << >>, obj |-> NoObject,
     raised |-> [type |-> "UserWarning", msg |-> msg], calls |-> << >>]

\* return SourceFromX(...)
Return(strategy, new, log) ==
    [invoked |-> << strategy >>, obj |-> new.obj, raised |-> new.raised,
     calls |-> log]

ReturnNew(strategy, new) == Return(strategy, new, new.calls)

\* return Source()
ReturnEmpty(new) ==
    [invoked |-> << >>, obj |-> new.obj, raised |-> new.raised,
     calls |-> << >>]

\* srcloct.abspath(dir) if dir else None
AbspathOrNone(dir) == IF Truthy(dir) THEN Str(abspath(dir.v)) ELSE None

\* if goto is None or wkdir is None or srcdir is None
GotoMissing(goto, wkdir, srcdir) ==
    goto = None \/ wkdir = None \/ srcdir = None

\* if srcdir is None or wkdir is None
MakeMissing(srcdir, wkdir) == srcdir = None \/ wkdir = None

\* the test left out
NeverMissing(srcdir) == FALSE

\* if srcdir is None
ScanMissing(srcdir) == srcdir = None

\* make_source after the two directories are made absolute; world is what the
\* strategies find: the documents' contents, the symbol table's files, the
\* source tree, and the environment of make and sloc
Dispatch(viewer_source, goto, source_method, srcdir, wkdir, exclude, extensions, world) ==
    IF viewer_source # << >>
    THEN Return("SourceFromJson",
                SourceFromJsonNew([i \in 1..Len(viewer_source) |->
                                      FileContent(viewer_source[i])]),
                << >>)
    ELSE IF source_method = "GOTO"
    THEN IF GotoMissing(goto, wkdir, srcdir)
         THEN Fail("make-source: expected --goto and --srcdir and --wkdir")
         ELSE ReturnNew("SourceFromGoto",
                        SourceFromGotoNew(goto, wkdir, srcdir, world.symbols))
    ELSE IF source_method = "MAKE"
    THEN IF MakeMissing(srcdir, wkdir)
         THEN Fail("make-source: expected --srcdir and --wkdir")
         ELSE ReturnNew("SourceFromMake",
                        SourceFromMakeNew(ValueOf(srcdir), ValueOf(wkdir), TRUE,
                                          world.env, world.sloc_run))
    ELSE IF source_method = "FIND"
    THEN IF ScanMissing(srcdir)
         THEN Fail("make-source: expected --srcdir")
         ELSE ReturnNew("SourceFromFind",
                        SourceFromFindNew(ValueOf(srcdir), world.tree, exclude,
                                          extensions))
    ELSE IF source_method = "WALK"
    THEN IF ScanMissing(srcdir)
         THEN Fail("make-source: expected --srcdir")
         ELSE ReturnNew("SourceFromWalk",
                        SourceFromWalkNew(ValueOf(srcdir), world.tree, exclude,
                                          extensions))
    ELSE ReturnEmpty(SourceNew(<< >>, << >>, FALSE, << >>))

make_source(viewer_source, goto, source_method, srcdir, wkdir, exclude, extensions, world) ==
    Dispatch(viewer_source, goto, source_method, AbspathOrNone(srcdir),
             AbspathOrNone(wkdir), exclude, extensions, world)

\* Action: a caller runs make_source
MakeSourceCall(viewer_source, goto, source_method, srcdir, wkdir, exclude, extensions, world) ==
    /\ pc = "new"
    /\ \E got \in {make_source(viewer_source, goto, source_method, srcdir,
                               wkdir, exclude, extensions, world)} :
           /\ self' = got.obj
           /\ raised' = got.raised
           /\ calls' = calls \o got.calls
           /\ local' = [invoked |-> got.invoked]
    /\ args' = [op |-> "make_source", viewer_source |-> viewer_source,
                goto |-> goto, source_method |-> source_method,
                srcdir |-> srcdir, wkdir |-> wkdir, exclude |-> exclude,
                extensions |-> extensions, world |-> world]
    /\ pc' = "done"
    /\ UNCHANGED written

----------------------------------------------------------------------------
(* Specification of make_source *)

\* What the strategies find: the files of the symbol table, the source tree,
\* and what make and sloc do (a build and a count that work, or a build that
\* fails)
Worlds ==
    {[symbols |-> symbols, tree |-> TreeFiles, env |-> w.env,
      sloc_run |-> w.sloc_run] :
        symbols \in
            { {<< "/", "r", "/", "a", ".", "c" >>},
              {<< "/", "r", "/", "a", ".", "c" >>,
               << "/", "u", "/", "h", ".", "h" >>} },
        w \in
            { [env |->
                  [clean1 |-> 0, build_rc |-> 2,
                   build_out |-> MakeLine.compile \o Newline,
                   fs |-> [path \in {BuildDir \o << "/", "a", ".", "o" >>} |->
                              Text(<< OutputLine.marker, OutputLine.relative >>)],
                   clean2 |-> 0],
               sloc_run |->
                  [i \in 1..1 |->
                      [ok |-> TRUE,
                       summary |-> ("total" :> [t |-> "int", v |-> 3])]]],
              [env |->
                  [clean1 |-> 0, build_rc |-> 1, build_out |-> << >>,
                   fs |-> << >>, clean2 |-> 0],
               sloc_run |-> << >>] }}

\* Sources.FIND, WALK, MAKE, GOTO, or no method; None, '' or a value for the
\* goto binary and the two directories
NextDispatch ==
    \E viewer_source \in {<< >>, << "a.json" >>, << "a.json", "b.json" >>},
       goto \in {None, Str(<< >>), Str(<< "g" >>)},
       source_method \in {"FIND", "WALK", "MAKE", "GOTO", "NONE"},
       srcdir \in {None, Str(<< >>), Str(MakeRoot)},
       wkdir \in {None, Str(<< >>), Str(BuildDir)},
       exclude \in Excludes, extensions \in Extensions, world \in Worlds :
        MakeSourceCall(viewer_source, goto, source_method, srcdir, wkdir,
                       exclude, extensions, world)

SpecDispatch == InitSource /\ [][NextDispatch]_vars

----------------------------------------------------------------------------
(* Properties of the Source constructor and of sloc *)

\* path lies under the directory root, and its path relative to root
DirPrefix(root) == IF root[Len(root)] = "/" THEN root ELSE root \o Slash
Under(path, root) ==
    StartsWith(path, DirPrefix(root)) /\ Len(path) > Len(DirPrefix(root))
RelativeTo(path, root) == From(path, Len(DirPrefix(root)))

\* C1: after Source(R, F), all_files is the deduplicated set of the
\* absolute-normalized members of F, and files is exactly the members of
\* all_files that lie under the directory R, each relative to R (a member of a
\* sibling directory whose name starts with R's name contributes nothing);
\* with no files and no root the object is the empty, valid one.
C1_FilesAreThoseUnderRoot ==
    (pc = "done" /\ args.op = "Source" /\ raised = NoError) =>
        LET all == Range(self["all_files"])
            root == self["root"]
        IN  /\ all = {abspath(f) : f \in Range(args.files)}
            /\ Len(self["all_files"]) = Cardinality(all)
            /\ root # << >> =>
                  /\ Range(self["files"]) =
                        {RelativeTo(p, root) : p \in {q \in all : Under(q, root)}}
                  /\ \A f \in Range(self["files"]) : OsJoin(root, f) \in all
            /\ (args.root = << >> /\ args.files = << >>) =>
                  /\ self["root"] = << >>
                  /\ self["files"] = << >>
                  /\ self["all_files"] = << >>
                  /\ Validate(self)

\* The failures of a tool run that sloc is to absorb
Tolerated(out) ==
    /\ ~out.ok
    /\ \/ out.error.type = "FileNotFoundError"
       \/ out.error.type = "OSError" /\ out.error.errno = 7
       \/ out.error.type = "CalledProcessError"

\* C5: when a run of the counting tool fails because the tool is not found,
\* the argument list is too long (errno 7) or the tool exits nonzero, sloc
\* returns None and raises nothing, also after earlier runs succeeded; and a
\* Source constructed with statistics requested is then constructed, valid,
\* without lines_of_code, and with the root, files and all_files it has
\* without statistics.
C5_SlocFailureGivesNoStatistics ==
    (pc = "done" /\ args.op \in {"Source", "sloc"} /\ args.sloc
       /\ \E i \in 1..Len(calls) : Tolerated(calls[i].out)) =>
        /\ raised = NoError
        /\ local.sloc.none
        /\ args.op = "Source" =>
              /\ self # NoObject
              /\ Validate(self)
              /\ ~Has(self, "lines_of_code")
              /\ self = SourceNew(args.root, args.files, FALSE, << >>).obj

C5_Witness ==
    /\ pc = "done" /\ args.op = "Source" /\ args.sloc
    /\ Len(calls) = 1 /\ Tolerated(calls[1].out)
    /\ calls[1].out.error.type = "CalledProcessError"
    /\ raised = NoError
    /\ self # NoObject /\ Len(self["files"]) = 2

\* The sum of a key's value over the summaries of the first n tool runs
RECURSIVE SumOverRuns(_, _, _)
SumOverRuns(log, key, n) ==
    IF n = 0 THEN 0
    ELSE SumOverRuns(log, key, n - 1)
         + (IF Has(log[n].out.summary, key)
            THEN IntOf(log[n].out.summary[key]) ELSE 0)

\* C6: when every run of the tool succeeds, sloc on N paths makes exactly
\* ceil(N/100) runs, each with at most 100 paths, the batches being the
\* consecutive slices of the list in order, and returns for every key the sum
\* of the key's values over the summaries of all runs.
C6_SlocBatchesAndSums ==
    (pc = "done" /\ args.op \in {"Source", "sloc"} /\ args.sloc
       /\ raised = NoError
       /\ \A i \in 1..Len(calls) : calls[i].out.ok) =>
        LET files == IF args.op = "sloc" THEN args.files ELSE self["files"]
            root == IF args.op = "sloc" THEN args.root ELSE self["root"]
            N == Len(files)
            loc == local.sloc.loc
        IN  /\ Len(calls) = (N + 99) \div 100
            /\ \A i \in 1..Len(calls) :
                  /\ Len(calls[i].files) <= 100
                  /\ calls[i].files =
                        SubSeq(files, 100 * (i - 1) + 1, Min({100 * i, N}))
                  /\ calls[i].cwd = root
            /\ ~local.sloc.none
            /\ DOMAIN loc = UNION {DOMAIN calls[i].out.summary : i \in 1..Len(calls)}
            /\ \A key \in DOMAIN loc : loc[key] = SumOverRuns(calls, key, Len(calls))

C6_Witness ==
    /\ pc = "done" /\ args.op = "sloc" /\ raised = NoError
    /\ Len(args.files) > 100
    /\ Len(calls) = 2
    /\ calls[1].out.ok /\ calls[2].out.ok
    /\ calls[1].out.summary # calls[2].out.summary
    /\ Len(calls[2].files) = 1
    /\ local.sloc.loc["total"] = 15

----------------------------------------------------------------------------
(* Properties of SourceFromJson *)

\* The content of a file is a serialized Source: a JSON document with the
\* tag whose record is valid
IsSourceDocument(content) ==
    /\ content.kind = "json"
    /\ Has(JsonLoads(content.text), JSON_TAG)
    /\ Validate(JsonLoads(content.text)[JSON_TAG])

RecordOf(content) == JsonLoads(content.text)[JSON_TAG]

RootsOf(contents) == {RecordOf(contents[i])["root"] : i \in 1..Len(contents)}

\* C2: merging n >= 1 serialized Sources that carry the same root gives a
\* Source with that root whose all_files is the deduplicated union of the
\* documents' all_files; merging the single document written from a Source S
\* gives the root and the all_files of S.
C2_MergeOfSameRoot ==
    (/\ pc = "done"
     /\ args.op = "SourceFromJson"
     /\ Len(args.contents) >= 1
     /\ \A i \in 1..Len(args.contents) : IsSourceDocument(args.contents[i])
     /\ Cardinality(RootsOf(args.contents)) = 1) =>
        /\ raised = NoError
        /\ self # NoObject
        /\ self["root"] \in RootsOf(args.contents)
        /\ Range(self["all_files"]) =
              UNION {Range(RecordOf(args.contents[i])["all_files"]) :
                        i \in 1..Len(args.contents)}
        /\ Cardinality(Range(self["all_files"])) = Len(self["all_files"])
        /\ args.source_jsons = << "out.json" >> =>
              /\ self["root"] = written.obj["root"]
              /\ Range(self["all_files"]) = Range(written.obj["all_files"])

C2_Witness ==
    /\ pc = "done" /\ args.op = "SourceFromJson" /\ raised = NoError
    /\ args.source_jsons = << "out.json", "b.json" >>
    /\ written.obj["root"] = << "/", "r" >>
    /\ Len(written.obj["all_files"]) = 2
    /\ Len(self["all_files"]) = 3

\* C3: an empty list of documents, a document that cannot be parsed, a
\* document without the tag, and documents with more than one root each end
\* SourceFromJson with a UserWarning (naming the roots in the last case) and
\* no object; no other exception type escapes.
C3_BadInputIsUserError ==
    (/\ pc = "done"
     /\ args.op = "SourceFromJson"
     /\ \/ args.contents = << >>
        \/ \E i \in 1..Len(args.contents) : args.contents[i].kind # "json"
        \/ \E i \in 1..Len(args.contents) :
              /\ args.contents[i].kind = "json"
              /\ ~Has(JsonLoads(args.contents[i].text), JSON_TAG)
        \/ /\ \A i \in 1..Len(args.contents) : IsSourceDocument(args.contents[i])
           /\ Cardinality(RootsOf(args.contents)) > 1) =>
        /\ raised.type = "UserWarning"
        /\ self = NoObject
        /\ ((\A i \in 1..Len(args.contents) : IsSourceDocument(args.contents[i]))
               /\ args.contents # << >>) =>
              raised.roots = RootsOf(args.contents)

----------------------------------------------------------------------------
(* Properties of the directory scans *)

\* The candidates of a scan as paths relative to the root: all that find
\* lists, the files with a source suffix that walk visits, or the list given
\* to select_source_files
RelativeCandidates ==
    CASE args.op = "select" -> Range(args.files)
      [] args.op = "SourceFromFind" ->
            {<< "." >>} \cup (DirsOf(args.tree) \ {<< >>}) \cup args.tree
      [] args.op = "SourceFromWalk" ->
            {f \in args.tree : IsSourceName(OsBasename(f))}

\* The selection described for a set of relative candidates
Selected(cands, root, exclude, extensions) ==
    {OsJoin(root, OsNormpath(c)) :
        c \in {d \in cands :
                 /\ exclude = None \/ ~ReMatch(exclude, OsNormpath(d))
                 /\ \/ extensions = None
                    \/ ReMatch(extensions, OsSplitextExt(OsNormpath(d)))}}

\* C7: in select_source_files and in both scans, the files found are exactly
\* the normalized candidates, taken relative to the root, that do not match
\* the exclusion pattern from their start and whose extension matches the
\* extension pattern, each joined with the root
C7_ScanSelectsRelativePaths ==
    (pc = "done" /\ args.op \in {"select", "SourceFromFind", "SourceFromWalk"})
        => Range(local.found)
             = Selected(RelativeCandidates, args.root, args.exclude,
                        args.extensions)


----------------------------------------------------------------------------
(* Properties of SourceFromMake *)

\* The lines that begin with hash and space and hold a quoted filename
MarkerLinesOf(output) ==
    {line \in Range(output) :
        StartsWith(line, << "#", " " >>) /\ QuotedMatches(line)}

\* The filenames of a set of marker lines that the preprocessor did not
\* generate, each resolved against the build directory and normalized
NamedSources(markers, build) ==
    {OsNormpath(OsJoin(build, QuotedGroup(line))) :
        line \in {l \in markers :
                    OsBasename(QuotedGroup(l)) \notin Generated}}

\* C8: extract_source_filenames returns, for every list of lines and without
\* failing, the sorted list without duplicates of the filenames quoted in the
\* lines that begin with hash and space, except the names generated by the
\* preprocessor, each resolved against the build directory and normalized
C8_ExtractsMarkerFilenames ==
    (pc = "done" /\ args.op = "extract_source_filenames")
        => /\ raised = NoError
           /\ local.found
                = SortedList(NamedSources(MarkerLinesOf(args.output), args.build))

\* The positions in the log of the steps of a run
Cleans == {i \in 1..Len(calls) : calls[i].cmd = "make clean"}
Builds == {i \in 1..Len(calls) : calls[i].cmd = "make goto"}
Opens == {i \in 1..Len(calls) : calls[i].cmd = "open"}

\* C9: in every run of SourceFromMake the first step is make clean, the build
\* starts only after that clean has succeeded, output files are opened only
\* after the build, and once the build has run a second make clean runs
\* after the build and after every read before the run ends
C9_CleanBuildReadClean ==
    (pc = "done" /\ args.op = "SourceFromMake")
        => /\ 1 \in Cleans
           /\ \A b \in Builds : b = 2 /\ calls[1].returncode = 0
           /\ \A o \in Opens : \E b \in Builds : b < o
           /\ Builds # {}
                => \E c \in Cleans :
                      /\ \A b \in Builds : b < c
                      /\ \A o \in Opens : o < c

\* The lines of the files of a list that exist, in the order of the list
RECURSIVE LinesOfFiles(_, _)
LinesOfFiles(files, fs) ==
    IF files = << >> THEN << >>
    ELSE (IF FsContent(fs, Head(files)) = Missing THEN << >>
          ELSE SplitLines(FsContent(fs, Head(files)).text))
         \o LinesOfFiles(Tail(files), fs)

\* The files opened by a run, in the order of the log
Opened == [k \in 1..Cardinality(Opens) |-> calls[Min(Opens) + k - 1].file]

\* C10: when the build of SourceFromMake exits with 0 or 2 the run goes on:
\* every preprocessor output file named by the build is opened, a missing one
\* adds no lines and raises nothing, and the lines of all the others are
\* read; when the build exits with another code, its CalledProcessError
\* reaches the caller, no file is opened and no object is made
C10_BuildExitAndMissingOutput ==
    (pc = "done" /\ args.op = "SourceFromMake" /\ Builds # {})
        => IF args.env.build_rc \in {0, 2}
           THEN /\ local.seen # << >>
                /\ Opened = local.seen.filenames
                /\ \A o \in Opens :
                      calls[o].found
                          = (FsContent(args.env.fs, calls[o].file) # Missing)
                /\ raised.type # "FileNotFoundError"
                /\ local.seen.output
                     = LinesOfFiles(local.seen.filenames, args.env.fs)
                /\ raised = NoError =>
                      /\ self # NoObject
                      /\ self.all_files
                           = SortedList(NamedSources(
                                 {l \in Range(local.seen.output) :
                                     StartsWith(Strip(l), << "#", " " >>)},
                                 args.build))
           ELSE /\ raised = [type |-> "CalledProcessError",
                             returncode |-> args.env.build_rc]
                /\ self = NoObject
                /\ Opens = {}
                /\ Len(calls) = 2

\* A build that exits with 2, a missing output file opened before one that
\* exists, and a file list made from the lines of the latter
C10_Witness ==
    /\ pc = "done"
    /\ args.op = "SourceFromMake"
    /\ args.env.build_rc = 2
    /\ raised = NoError
    /\ self # NoObject
    /\ self.all_files # << >>
    /\ \E i, j \in Opens : i < j /\ ~calls[i].found /\ calls[j].found


----------------------------------------------------------------------------
(* Properties of make_source *)

\* The strategy a configuration selects: the merge when documents are given,
\* else the one of the method
Chosen ==
    IF args.viewer_source # << >> THEN "SourceFromJson"
    ELSE CASE args.source_method = "GOTO" -> "SourceFromGoto"
           [] args.source_method = "MAKE" -> "SourceFromMake"
           [] args.source_method = "FIND" -> "SourceFromFind"
           [] args.source_method = "WALK" -> "SourceFromWalk"
           [] OTHER -> "none"

\* A directory parameter is absent when it is None or empty; the goto binary
\* is absent when it is None
Absent(dir) == dir = None \/ dir.v = << >>

RequiredAbsent ==
    CASE Chosen = "SourceFromGoto" ->
            args.goto = None \/ Absent(args.wkdir) \/ Absent(args.srcdir)
      [] Chosen = "SourceFromMake" ->
            Absent(args.srcdir) \/ Absent(args.wkdir)
      [] Chosen \in {"SourceFromFind", "SourceFromWalk"} ->
            Absent(args.srcdir)
      [] OTHER -> FALSE

\* What the chosen strategy gives when it is constructed on its own with the
\* absolute directories
Alone ==
    CASE Chosen = "SourceFromJson" ->
            SourceFromJsonNew([i \in 1..Len(args.viewer_source) |->
                                  FileContent(args.viewer_source[i])])
      [] Chosen = "SourceFromGoto" ->
            SourceFromGotoNew(args.goto, Str(abspath(args.wkdir.v)),
                              Str(abspath(args.srcdir.v)), args.world.symbols)
      [] Chosen = "SourceFromMake" ->
            SourceFromMakeNew(abspath(args.srcdir.v), abspath(args.wkdir.v),
                              TRUE, args.world.env, args.world.sloc_run)
      [] Chosen = "SourceFromFind" ->
            SourceFromFindNew(abspath(args.srcdir.v), args.world.tree,
                              args.exclude, args.extensions)
      [] Chosen = "SourceFromWalk" ->
            SourceFromWalkNew(abspath(args.srcdir.v), args.world.tree,
                              args.exclude, args.extensions)

\* The steps a strategy logs
StepsOf(strategy) ==
    CASE strategy = "SourceFromJson" -> {}
      [] strategy = "SourceFromGoto" -> {"symbol_table"}
      [] strategy = "SourceFromMake" -> {"make clean", "make goto", "open", "sloc"}
      [] strategy = "SourceFromFind" -> {"find"}
      [] strategy = "SourceFromWalk" -> {"os.walk"}

\* C4: make_source invokes at most one strategy; when a parameter the chosen
\* strategy requires is absent it raises UserWarning with nothing invoked and
\* nothing run; when they are present it invokes the chosen strategy alone
\* and gives what that strategy gives; with no documents and no method it
\* invokes nothing and returns the empty Source
C4_DispatchesOneStrategy ==
    (pc = "done" /\ args.op = "make_source")
        => /\ Len(local.invoked) <= 1
           /\ IF Chosen = "none"
              THEN /\ local.invoked = << >>
                   /\ calls = << >>
                   /\ raised = NoError
                   /\ self = [root |-> << >>, files |-> << >>,
                              all_files |-> << >>]
              ELSE IF RequiredAbsent
              THEN /\ local.invoked = << >>
                   /\ calls = << >>
                   /\ raised.type = "UserWarning"
                   /\ self = NoObject
              ELSE /\ local.invoked = << Chosen >>
                   /\ \A i \in 1..Len(calls) : calls[i].cmd \in StepsOf(Chosen)
                   /\ self = Alone.obj
                   /\ raised = Alone.raised

\* make_source has invoked SourceFromMake with both directories given: the
\* build has run and the Source is returned
C4_Witness ==
    /\ pc = "done"
    /\ args.op = "make_source"
    /\ local.invoked = << "SourceFromMake" >>
    /\ raised = NoError
    /\ self # NoObject
    /\ self.files # << >>
    /\ \E i \in 1..Len(calls) : calls[i].cmd = "make goto"


----------------------------------------------------------------------------
(* Properties of extract_filenames *)

\* The arguments of a command line: its parts between blanks
Words(cmd) == SelectSeq(Split(cmd, " "), LAMBDA w : w # << >>)

\* The positions of the arguments that follow an argument -o
OutputArgs(cmd) ==
    {k \in 2..Len(Words(cmd)) : Words(cmd)[k - 1] = << "-", "o" >>}

\* The output named by the first -o of each command line that has one, made
\* absolute from the build directory, in the order of the command lines
NamedOutputs(commands, build) ==
    Map(SelectSeq(commands, LAMBDA cmd : OutputArgs(cmd) # {}),
        LAMBDA cmd : OsAbspath(OsJoin(build, Words(cmd)[Min(OutputArgs(cmd))])))

\* C11: extract_filenames returns, for the goto-cc command lines in their
\* order, the output that follows -o wherever it stands in the line (the last
\* argument included) as an absolute path resolved against the build
\* directory, one entry for each line that has one and none for the others
C11_ExtractsEveryOutput ==
    /\ (pc = "done" /\ args.op = "extract_filenames")
          => local.found = NamedOutputs(args.commands, args.build)
    /\ (pc = "done" /\ args.op = "SourceFromMake" /\ local.seen # << >>)
          => local.seen.filenames
                = NamedOutputs(local.seen.commands, args.build)


====
